---- MODULE Spec2Model ----
(***************************************************************************)
(* pubsubc (main.go): discovery of configuration strings in the numbered   *)
(* PUBSUB_PROJECT<N> environment variables and in the labels of running    *)
(* containers, parsing of "project,topic[:sub[+endpoint]]..." and the      *)
(* sequential existence-check / create calls against the Pub/Sub service.  *)
(*                                                                         *)
(* A Go string is a sequence of one-character strings.  A configuration    *)
(* value is kept in the state as the fields it is written from (project,   *)
(* topic specs, subscription specs); Format writes the string the program  *)
(* reads, and the program's own strings.Split calls take it apart again.   *)
(***************************************************************************)
EXTENDS Integers, Sequences, FiniteSets, TLC

VARIABLES
    environ,       \* PUBSUB_PROJECT<n>: [set, cfg] for n in 1..MaxEnv
    containers,    \* running containers: sequence of label maps (key -> cfg)
    remoteTopics,  \* Pub/Sub service: existing <<project, topic>>
    remoteSubs,    \* Pub/Sub service: existing <<project, subscription>>
    run,           \* number of the current invocation of the program
    pc,            \* position of main
    flagsPassed,   \* main got past --help / --version
    exitCode,      \* exit status, meaningful when pc = "done"
    fatal,         \* fatalf was called in this run
    listed,        \* ContainerList succeeded in this run
    i,             \* loop variable of processEnvConfig
    c,             \* index of the container being ranged over
    labelsTodo,    \* label keys of container c not yet ranged over
    ret,           \* caller of processConfigString: "env" or "labels"
    configCount,   \* the package variable configCount
    cur,           \* arguments of the latest processConfigString call
    project,       \* configParts[0]
    topics,        \* the Topics map built by processConfigString
    todo,          \* keys of topics not yet ranged over in create
    topic,         \* topicID of the current iteration
    subs,          \* subscriptions of the current topic still to create
    conn,          \* pubsub client of this configuration: none/open/closed
    calls,         \* remote calls issued for the latest configuration
    warnings,      \* warnf calls of this run
    processed,     \* source hints passed to processConfigString in this run
    faults,        \* remote failures injected in this run
    okNow,         \* hints whose create returned nil in this run
    prevOk         \* hints whose create returned nil in an earlier run

vars == <<environ, containers, remoteTopics, remoteSubs, run, pc, flagsPassed,
          exitCode, fatal, listed, i, c, labelsTodo, ret, configCount, cur,
          project, topics, todo, topic, subs, conn, calls, warnings,
          processed, faults, okNow, prevOk>>

----------------------------------------------------------------------------
(* Bounds *)

MaxEnv == 3
MaxTopics == 2
MaxSpecLen == 3
MaxFaults == 1
MaxRuns == 2

----------------------------------------------------------------------------
(* Strings *)

\* strings.Index for a one-character separator, 1-based, 0 when absent
IndexOf(s, ch) ==
    IF \E k \in 1..Len(s) : s[k] = ch
    THEN CHOOSE k \in 1..Len(s) : s[k] = ch /\ \A j \in 1..(k - 1) : s[j] # ch
    ELSE 0

\* strings.Split(s, sep): every occurrence of sep separates two fields
RECURSIVE Split(_, _)
Split(s, sep) ==
    LET k == IndexOf(s, sep)
    IN  IF k = 0 THEN <<s>>
        ELSE <<SubSeq(s, 1, k - 1)>> \o Split(SubSeq(s, k + 1, Len(s)), sep)

\* strings.Replace(s, old, new, 1): the first occurrence only
Replace1(s, old, new) ==
    LET k == IndexOf(s, old)
    IN  IF k = 0 THEN s
        ELSE [j \in 1..Len(s) |-> IF j = k THEN new ELSE s[j]]

RECURSIVE Join(_, _)
Join(parts, sep) ==
    IF Len(parts) = 0 THEN <<>>
    ELSE IF Len(parts) = 1 THEN parts[1]
    ELSE parts[1] \o <<sep>> \o Join(Tail(parts), sep)

\* the configuration string of a project and its topic specs
Format(cfg) ==
    Join(<<cfg.project>> \o
         [k \in 1..Len(cfg.topics) |->
             Join(<<cfg.topics[k].name>> \o cfg.topics[k].subs, ":")],
         ",")

HttpPrefix == <<"h","t","t","p",":","/","/">>
Pubsubc == <<"p","u","b","s","u","b","c">>

----------------------------------------------------------------------------
(* Inputs *)

SeqsUpTo(S, n) == UNION {[1..k -> S] : k \in 0..n}

Cfg(p, ts) == [project |-> p, topics |-> ts]
TopicSpec(n, ss) == [name |-> n, subs |-> ss]
EmptyCfg == Cfg(<<>>, <<>>)
Unset == [set |-> FALSE, cfg |-> EmptyCfg]
Set(cfg) == [set |-> TRUE, cfg |-> cfg]

\* README.md examples and the usage text
ReadmePlain == <<"p","u","s","h","-","s","u","b","s","c","r","i","p","t","i","o","n","+","e","n","d","p","o","i","n","t">>
ReadmeHttps == <<"p","u","s","h","-","s","u","b","s","c","r","i","p","t","i","o","n","+","h","t","t","p","s","|","/","/","e","n","d","p","o","i","n","t","/","p","a","t","h">>
ReadmeHttpPort == <<"p","u","s","h","-","s","u","b","s","c","r","i","p","t","i","o","n","+","h","t","t","p","|","/","/","e","n","d","p","o","i","n","t","|","8","0","8","0","/","p","a","t","h">>
HostPort == <<"s","u","b","+","h","o","s","t","|","8","0","8","0","/","p","a","t","h">>

SpecAlphabet == {"s", "+", "|"}
RichSubSpecs ==
    (SeqsUpTo(SpecAlphabet, MaxSpecLen) \ {<<>>})
        \cup {ReadmePlain, ReadmeHttps, ReadmeHttpPort, HostPort}

TopicNames == {<<"t">>, <<"u">>}
SubLists == {<<>>, <<(<<"s">>)>>, <<(<<"s">>), <<"r","+","h","|","8">>>>}
TopicSpecs == {TopicSpec(n, ss) : n \in TopicNames, ss \in SubLists}
ParseCfgs == {Cfg(<<"p">>, ts) : ts \in SeqsUpTo(TopicSpecs, MaxTopics)}

CfgA == Cfg(<<"p">>, <<>>)
CfgB == Cfg(<<"p">>, <<TopicSpec(<<"t">>, <<(<<"s">>)>>)>>)
CfgD == Cfg(<<"q">>, <<TopicSpec(<<"u">>, <<(<<"r">>)>>)>>)
SmallEnvValues == {Unset, Set(EmptyCfg), Set(CfgA), Set(CfgB)}

KeyConfig1 == <<"p","u","b","s","u","b","c",".","c","o","n","f","i","g","1">>
KeyOther == <<"o","t","h","e","r",".","l","a","b","e","l">>
LabelsOther == [k \in {KeyOther} |-> CfgB]
LabelsConfig == [k \in {KeyConfig1, KeyOther} |-> IF k = KeyConfig1 THEN CfgD ELSE CfgB]
LabelsMalformed == [k \in {KeyConfig1} |-> CfgA]
SmallContainers == {<<>>, <<LabelsMalformed>>, <<LabelsOther, LabelsConfig>>}

NoEnv == [n \in 1..MaxEnv |-> Unset]

----------------------------------------------------------------------------
(* State after construction *)

EmptyMap == [x \in {} |-> <<>>]
NoHint == [kind |-> "none", n |-> 0, key |-> <<>>]
EnvHint(n) == [kind |-> "env", n |-> n, key |-> <<>>]
LabelHint(k, key) == [kind |-> "label", n |-> k, key |-> key]
NoCur == [config |-> <<>>, hint |-> NoHint]

InitRun ==
    /\ pc = "start"
    /\ flagsPassed = FALSE
    /\ exitCode = 0
    /\ fatal = FALSE
    /\ listed = FALSE
    /\ i = 1
    /\ c = 1
    /\ labelsTodo = {}
    /\ ret = "env"
    /\ configCount = 0
    /\ cur = NoCur
    /\ project = <<>>
    /\ topics = EmptyMap
    /\ todo = {}
    /\ topic = <<>>
    /\ subs = <<>>
    /\ conn = "none"
    /\ calls = <<>>
    /\ warnings = <<>>
    /\ processed = <<>>
    /\ faults = 0
    /\ okNow = {}

InitInputs ==
    \/ /\ \E s \in RichSubSpecs :
            environ = [NoEnv EXCEPT
                ![1] = Set(Cfg(<<"p">>, <<TopicSpec(<<"t">>, <<s>>)>>))]
       /\ containers = <<>>
    \/ /\ \E cfg \in ParseCfgs : environ = [NoEnv EXCEPT ![1] = Set(cfg)]
       /\ containers = <<>>
    \/ /\ environ \in [1..MaxEnv -> SmallEnvValues]
       /\ containers \in SmallContainers

Init ==
    /\ InitInputs
    /\ remoteTopics = {}
    /\ remoteSubs = {}
    /\ run = 1
    /\ prevOk = {}
    /\ InitRun

----------------------------------------------------------------------------
(* processConfigString *)

Warning(hint, kind) == [hint |-> hint, kind |-> kind]

Call(op, t, name, push, endpoint, spec, ok, exists) ==
    [op |-> op, topic |-> t, name |-> name, push |-> push,
     endpoint |-> endpoint, spec |-> spec, ok |-> ok, exists |-> exists]

\* variant: the increment placed after the field-count check
NewCountAfterCheck(n, configParts) ==
    IF Len(configParts) < 2 THEN n ELSE n + 1

\* configCount++ at the top of processConfigString
NewCount(n, configParts) == n + 1

\* variant: off-by-one field count
TooFewFieldsOffByOne(configParts) == Len(configParts) < 1

\* len(configParts) < 2
TooFewFields(configParts) == Len(configParts) < 2

\* variant: an existing key is kept (first topic spec wins)
MapPutKeepFirst(m, k, v) ==
    [x \in DOMAIN m \cup {k} |-> IF x \in DOMAIN m THEN m[x] ELSE v]

\* topics[topicParts[0]] = topicParts[1:]
MapPut(m, k, v) == [x \in DOMAIN m \cup {k} |-> IF x = k THEN v ELSE m[x]]

\* for _, part := range configParts[1:] { ... }
RECURSIVE ParseTopics(_)
ParseTopics(parts) ==
    IF parts = <<>> THEN EmptyMap
    ELSE LET topicParts == Split(parts[Len(parts)], ":")
         IN  MapPut(ParseTopics(SubSeq(parts, 1, Len(parts) - 1)),
                    topicParts[1], Tail(topicParts))

\* processConfigString up to the call of create; back is the calling loop
ProcessConfigString(config, sourceHint, back) ==
    LET configParts == Split(config, ",")
    IN  /\ configCount' = NewCount(configCount, configParts)
        /\ cur' = [config |-> config, hint |-> sourceHint]
        /\ processed' = Append(processed, sourceHint)
        /\ calls' = <<>>
        /\ conn' = "none"
        /\ ret' = back
        /\ todo' = {}
        /\ topic' = <<>>
        /\ subs' = <<>>
        /\ IF TooFewFields(configParts)
           THEN /\ warnings' = Append(warnings, Warning(sourceHint, "malformed"))
                /\ topics' = EmptyMap
                /\ project' = <<>>
                /\ pc' = back
           ELSE /\ warnings' = warnings
                /\ topics' = ParseTopics(Tail(configParts))
                /\ project' = configParts[1]
                /\ pc' = "connect"

----------------------------------------------------------------------------
(* main, processEnvConfig, processDockerLabelConfig *)

\* flag.Parse and the --help / --version returns
ParseFlags ==
    /\ pc = "start"
    /\ \E help \in BOOLEAN, version \in BOOLEAN :
          IF help \/ version
          THEN /\ pc' = "done"
               /\ exitCode' = 0
               /\ flagsPassed' = FALSE
          ELSE /\ pc' = "env"
               /\ exitCode' = exitCode
               /\ flagsPassed' = TRUE
    /\ UNCHANGED <<environ, containers, remoteTopics, remoteSubs, run, fatal,
                   listed, i, c, labelsTodo, ret, configCount, cur, project,
                   topics, todo, topic, subs, conn, calls, warnings, processed,
                   faults, okNow, prevOk>>

\* variant: off-by-one variable number
GetenvOffByOne(n) ==
    IF n + 1 \in 1..MaxEnv /\ environ[n + 1].set
    THEN Format(environ[n + 1].cfg) ELSE <<>>

\* os.Getenv(fmt.Sprintf("PUBSUB_PROJECT%d", n)): "" when unset
Getenv(n) ==
    IF n \in 1..MaxEnv /\ environ[n].set THEN Format(environ[n].cfg) ELSE <<>>

\* one iteration of the loop of processEnvConfig
ProcessEnvConfig ==
    /\ pc = "env"
    /\ LET env == Getenv(i)
       IN  IF env = <<>>
           THEN /\ pc' = "docker"
                /\ UNCHANGED <<i, ret, configCount, cur, project, topics, todo,
                               topic, subs, conn, calls, warnings, processed>>
           ELSE /\ i' = i + 1
                /\ ProcessConfigString(env, EnvHint(i), "env")
    /\ UNCHANGED <<environ, containers, remoteTopics, remoteSubs, run,
                   flagsPassed, exitCode, fatal, listed, c, labelsTodo,
                   faults, okNow, prevOk>>

\* position of the range over containers once container k is reached
EnterContainer(k) ==
    /\ c' = k
    /\ IF k <= Len(containers)
       THEN /\ labelsTodo' = DOMAIN containers[k]
            /\ pc' = "labels"
       ELSE /\ labelsTodo' = {}
            /\ pc' = "exitcheck"

\* client.NewClientWithOpts and cli.ContainerList
DockerList ==
    /\ pc = "docker"
    /\ \/ /\ \E kind \in {"dockerClient", "dockerList"} :
                warnings' = Append(warnings, Warning(NoHint, kind))
          /\ pc' = "exitcheck"
          /\ UNCHANGED <<listed, c, labelsTodo>>
       \/ /\ pc' = "exitcheck"     \* client.IsErrConnectionFailed: debugf only
          /\ UNCHANGED <<listed, c, labelsTodo, warnings>>
       \/ /\ listed' = TRUE
          /\ EnterContainer(1)
          /\ UNCHANGED warnings
    /\ UNCHANGED <<environ, containers, remoteTopics, remoteSubs, run,
                   flagsPassed, exitCode, fatal, i, ret, configCount, cur,
                   project, topics, todo, topic, subs, conn, calls, processed,
                   faults, okNow, prevOk>>

\* one iteration of the range over container.Labels (map order is arbitrary)
ProcessLabel ==
    /\ pc = "labels"
    /\ \E key \in labelsTodo :
          /\ labelsTodo' = labelsTodo \ {key}
          /\ IF Split(key, ".")[1] = Pubsubc
             THEN ProcessConfigString(Format(containers[c][key]),
                                      LabelHint(c, key), "labels")
             ELSE UNCHANGED <<pc, ret, configCount, cur, project, topics, todo,
                              topic, subs, conn, calls, warnings, processed>>
    /\ UNCHANGED <<environ, containers, remoteTopics, remoteSubs, run,
                   flagsPassed, exitCode, fatal, listed, i, c, faults, okNow,
                   prevOk>>

\* the labels of container c are exhausted: next container, or back to main
NextContainer ==
    /\ pc = "labels"
    /\ labelsTodo = {}
    /\ EnterContainer(c + 1)
    /\ UNCHANGED <<environ, containers, remoteTopics, remoteSubs, run,
                   flagsPassed, exitCode, fatal, listed, i, ret, configCount,
                   cur, project, topics, todo, topic, subs, conn, calls,
                   warnings, processed, faults, okNow, prevOk>>

\* variant: the os.Exit(1) is missing
ExitStatusAlwaysZero(count) == 0

\* if 0 == configCount { ...; os.Exit(1) }
ExitStatus(count) == IF count = 0 THEN 1 ELSE 0

MainExit ==
    /\ pc = "exitcheck"
    /\ pc' = "done"
    /\ exitCode' = ExitStatus(configCount)
    /\ UNCHANGED <<environ, containers, remoteTopics, remoteSubs, run,
                   flagsPassed, fatal, listed, i, c, labelsTodo, ret,
                   configCount, cur, project, topics, todo, topic, subs, conn,
                   calls, warnings, processed, faults, okNow, prevOk>>

----------------------------------------------------------------------------
(* create *)

\* variant: fatalf prints and returns, create goes on with the client
FatalfNoExit ==
    /\ pc' = "range"
    /\ conn' = "open"
    /\ todo' = DOMAIN topics
    /\ fatal' = TRUE
    /\ UNCHANGED <<exitCode, warnings, okNow>>

\* fatalf: print and os.Exit(1)
Fatalf ==
    /\ pc' = "done"
    /\ exitCode' = 1
    /\ fatal' = TRUE
    /\ UNCHANGED <<conn, todo, warnings, okNow>>

\* variant: the error is not returned, the loops go on
AfterCallNoReturn(ok, subsLeft, todoLeft) ==
    IF subsLeft # <<>>
    THEN /\ pc' = "subs"
         /\ UNCHANGED <<conn, warnings, okNow>>
    ELSE IF todoLeft # {}
    THEN /\ pc' = "range"
         /\ UNCHANGED <<conn, warnings, okNow>>
    ELSE /\ conn' = "closed"
         /\ warnings' = warnings
         /\ okNow' = okNow \cup {cur.hint}
         /\ pc' = ret

\* control after a remote call of create: return the error (the deferred
\* client.Close runs, processConfigString warns and returns to its caller),
\* go on with the next subscription or topic, or return nil
AfterCall(ok, subsLeft, todoLeft) ==
    IF ~ok
    THEN /\ conn' = "closed"
         /\ warnings' = Append(warnings, Warning(cur.hint, "create"))
         /\ okNow' = okNow
         /\ pc' = ret
    ELSE IF subsLeft # <<>>
    THEN /\ pc' = "subs"
         /\ UNCHANGED <<conn, warnings, okNow>>
    ELSE IF todoLeft # {}
    THEN /\ pc' = "range"
         /\ UNCHANGED <<conn, warnings, okNow>>
    ELSE /\ conn' = "closed"
         /\ warnings' = warnings
         /\ okNow' = okNow \cup {cur.hint}
         /\ pc' = ret

\* pubsub.NewClient(ctx, projectID)
NewClient ==
    /\ pc = "connect"
    /\ \/ /\ faults < MaxFaults
          /\ faults' = faults + 1
          /\ Fatalf
       \/ /\ todo' = DOMAIN topics
          /\ IF DOMAIN topics = {}
             THEN /\ conn' = "closed"
                  /\ pc' = ret
                  /\ okNow' = okNow \cup {cur.hint}
             ELSE /\ conn' = "open"
                  /\ pc' = "range"
                  /\ okNow' = okNow
          /\ UNCHANGED <<faults, exitCode, fatal, warnings>>
    /\ UNCHANGED <<environ, containers, remoteTopics, remoteSubs, run,
                   flagsPassed, listed, i, c, labelsTodo, ret, configCount,
                   cur, project, topics, topic, subs, calls, processed, prevOk>>

\* the err of a remote call: nil ("ok"), the service's AlreadyExists for a
\* resource it holds ("refused"), or any other failure ("error")
Outcomes(possible) ==
    (IF possible THEN {"ok"} ELSE {"refused"})
        \cup (IF faults < MaxFaults THEN {"error"} ELSE {})

\* variant: the topic is created without regard to the existence check
NeedCreateAlways(exists) == TRUE

\* if exists { ... } else { client.CreateTopic }
NeedCreate(exists) == ~exists

\* topic.Exists(ctx) for the next key of the range over topics
TopicExists ==
    /\ pc = "range"
    /\ \E t \in todo, res \in Outcomes(TRUE) :
          LET ok == res = "ok"
              exists == <<project, t>> \in remoteTopics
          IN  /\ calls' = Append(calls,
                     Call("Exists", t, <<>>, FALSE, <<>>, <<>>, ok, ok /\ exists))
              /\ faults' = IF res = "error" THEN faults + 1 ELSE faults
              /\ topic' = t
              /\ todo' = todo \ {t}
              /\ subs' = topics[t]
              /\ IF ok /\ NeedCreate(exists)
                 THEN /\ pc' = "mktopic"
                      /\ UNCHANGED <<conn, warnings, okNow>>
                 ELSE AfterCall(ok, topics[t], todo \ {t})
    /\ UNCHANGED <<environ, containers, remoteTopics, remoteSubs, run,
                   flagsPassed, exitCode, fatal, listed, i, c, labelsTodo, ret,
                   configCount, cur, project, topics, processed, prevOk>>

\* client.CreateTopic(ctx, topicID): refused when the topic exists
CreateTopic ==
    /\ pc = "mktopic"
    /\ \E res \in Outcomes(<<project, topic>> \notin remoteTopics) :
          LET ok == res = "ok"
          IN  /\ calls' = Append(calls,
                     Call("CreateTopic", topic, <<>>, FALSE, <<>>, <<>>, ok, FALSE))
              /\ faults' = IF res = "error" THEN faults + 1 ELSE faults
              /\ remoteTopics' = IF ok THEN remoteTopics \cup {<<project, topic>>}
                                 ELSE remoteTopics
              /\ AfterCall(ok, subs, todo)
    /\ UNCHANGED <<environ, containers, remoteSubs, run, flagsPassed, exitCode,
                   fatal, listed, i, c, labelsTodo, ret, configCount, cur,
                   project, topics, todo, topic, subs, processed, prevOk>>

\* subscriptionParts := strings.Split(subscription, "+") and what create
\* passes to client.CreateSubscription
SubscriptionID(subscription) == Split(subscription, "+")[1]
IsPush(subscription) == Len(Split(subscription, "+")) > 1
PushEndpoint(subscription) ==
    HttpPrefix \o Replace1(Split(subscription, "+")[2], "|", ":")

\* client.CreateSubscription for the next subscription of the current topic:
\* refused when a subscription of that name exists in the project
CreateSubscription ==
    /\ pc = "subs"
    /\ LET subscription == Head(subs)
           id == SubscriptionID(subscription)
           push == IsPush(subscription)
           endpoint == IF push THEN PushEndpoint(subscription) ELSE <<>>
           free == <<project, id>> \notin remoteSubs
       IN  \E res \in Outcomes(free) :
              LET ok == res = "ok"
              IN  /\ calls' = Append(calls,
                         Call("CreateSubscription", topic, id, push, endpoint,
                              subscription, ok, ~free))
                  /\ faults' = IF res = "error" THEN faults + 1 ELSE faults
                  /\ remoteSubs' = IF ok THEN remoteSubs \cup {<<project, id>>}
                                   ELSE remoteSubs
                  /\ subs' = Tail(subs)
                  /\ AfterCall(ok, Tail(subs), todo)
    /\ UNCHANGED <<environ, containers, remoteTopics, run, flagsPassed,
                   exitCode, fatal, listed, i, c, labelsTodo, ret, configCount,
                   cur, project, topics, todo, topic, processed, prevOk>>

----------------------------------------------------------------------------
(* The program is run again against the same service and the same inputs *)

Restart ==
    /\ pc = "done"
    /\ run < MaxRuns
    /\ run' = run + 1
    /\ prevOk' = prevOk \cup okNow
    /\ pc' = "start"
    /\ flagsPassed' = FALSE
    /\ exitCode' = 0
    /\ fatal' = FALSE
    /\ listed' = FALSE
    /\ i' = 1
    /\ c' = 1
    /\ labelsTodo' = {}
    /\ ret' = "env"
    /\ configCount' = 0
    /\ cur' = NoCur
    /\ project' = <<>>
    /\ topics' = EmptyMap
    /\ todo' = {}
    /\ topic' = <<>>
    /\ subs' = <<>>
    /\ conn' = "none"
    /\ calls' = <<>>
    /\ warnings' = <<>>
    /\ processed' = <<>>
    /\ faults' = 0
    /\ okNow' = {}
    /\ UNCHANGED <<environ, containers, remoteTopics, remoteSubs>>

Next ==
    \/ ParseFlags
    \/ ProcessEnvConfig
    \/ DockerList
    \/ ProcessLabel
    \/ NextContainer
    \/ MainExit
    \/ NewClient
    \/ TopicExists
    \/ CreateTopic
    \/ CreateSubscription
    \/ Restart

Spec == Init /\ [][Next]_vars

----------------------------------------------------------------------------
(* Properties *)

Last(q) == q[Len(q)]

\* main is not inside create
Discovering == pc \in {"env", "labels", "docker", "exitcheck", "done"}

\* the run came to its end through the check of configCount
NormalEnd == pc = "done" /\ flagsPassed /\ ~fatal

\* the fields of the configuration a source hint names
SrcOf(hint) ==
    IF hint.kind = "env" THEN environ[hint.n].cfg
    ELSE containers[hint.n][hint.key]

HasComma(config) == \E k \in 1..Len(config) : config[k] = ","

CountWarn(hint) ==
    Cardinality({k \in 1..Len(warnings) : warnings[k].hint = hint})

\* leading numbered variables that hold a non-empty value
EnvDiscovered ==
    Cardinality({k \in 1..MaxEnv :
        \A j \in 1..k : environ[j].set /\ environ[j].cfg # EmptyCfg})

\* key is "pubsubc" or starts with "pubsubc."
ToolKey(key) ==
    /\ Len(key) >= Len(Pubsubc)
    /\ SubSeq(key, 1, Len(Pubsubc)) = Pubsubc
    /\ (Len(key) > Len(Pubsubc) => key[Len(Pubsubc) + 1] = ".")

ToolLabels ==
    UNION {{<<k, key>> : key \in {x \in DOMAIN containers[k] : ToolKey(x)}} :
              k \in 1..Len(containers)}

LabelsDiscovered == IF listed THEN Cardinality(ToolLabels) ELSE 0

\* C1: a run that got past the flags and met no fatal connection failure
\* exits with status 1 exactly when no configuration string was discovered in
\* the environment pass and the label pass, and with status 0 otherwise.
C1_ExitStatus ==
    NormalEnd =>
        /\ exitCode \in {0, 1}
        /\ exitCode = 1 <=> EnvDiscovered + LabelsDiscovered = 0

\* C1 witness: every discovered configuration failed and the status is 0
C1_Witness ==
    /\ NormalEnd
    /\ exitCode = 0
    /\ okNow = {}
    /\ \E k \in 1..Len(warnings) : warnings[k].kind = "create"

\* C2: a configuration string without a second comma-separated field opens
\* no connection, issues no remote call, draws exactly one warning carrying
\* its source hint, and control is back in the discovery loop.
C2_MalformedSkipped ==
    (cur.hint # NoHint /\ ~HasComma(cur.config)) =>
        /\ calls = <<>>
        /\ conn = "none"
        /\ CountWarn(cur.hint) = 1
        /\ Discovering
        /\ ~fatal

\* C2 witness: a malformed variable was skipped and the next one is set
C2_Witness ==
    /\ cur.hint.kind = "env"
    /\ ~HasComma(cur.config)
    /\ pc = "env"
    /\ Getenv(i) # <<>>
    /\ CountWarn(cur.hint) = 1

TopicNamesOf(src) == {src.topics[k].name : k \in 1..Len(src.topics)}
LastSpecOf(src, name) ==
    CHOOSE k \in 1..Len(src.topics) :
        /\ src.topics[k].name = name
        /\ \A j \in (k + 1)..Len(src.topics) : src.topics[j].name # name
DistinctNames(src) ==
    \A j, k \in 1..Len(src.topics) :
        src.topics[j].name = src.topics[k].name => j = k

\* C3: a configuration string written from a project and N topic specs is
\* parsed to that project and to a map whose keys are the topic names, each
\* mapped to the subscription specs of the last topic spec of that name, in
\* order; with pairwise distinct names the map has exactly N keys.
C3_ParseConfig ==
    (cur.hint # NoHint /\ HasComma(cur.config)) =>
        LET src == SrcOf(cur.hint)
        IN  /\ project = src.project
            /\ DOMAIN topics = TopicNamesOf(src)
            /\ \A name \in TopicNamesOf(src) :
                  topics[name] = src.topics[LastSpecOf(src, name)].subs
            /\ DistinctNames(src) =>
                  /\ Cardinality(DOMAIN topics) = Len(src.topics)
                  /\ \A k \in 1..Len(src.topics) :
                        topics[src.topics[k].name] = src.topics[k].subs

\* C3 witness: a repeated topic name whose two specs differ
C3_Witness ==
    /\ pc = "connect"
    /\ \E j, k \in 1..Len(SrcOf(cur.hint).topics) :
          /\ j < k
          /\ SrcOf(cur.hint).topics[j].name = SrcOf(cur.hint).topics[k].name
          /\ SrcOf(cur.hint).topics[j].subs # SrcOf(cur.hint).topics[k].subs

CreateSubscriptionCalls ==
    {k \in 1..Len(calls) : calls[k].op = "CreateSubscription"}

AfterFirstPlus(spec) == SubSeq(spec, IndexOf(spec, "+") + 1, Len(spec))
BeforeFirstPlus(spec) == SubSeq(spec, 1, IndexOf(spec, "+") - 1)
CountChar(s, ch) == Cardinality({k \in 1..Len(s) : s[k] = ch})
ReplaceAll(s, old, new) == [k \in 1..Len(s) |-> IF s[k] = old THEN new ELSE s[k]]
HasProtocol(url) ==
    \E k \in 1..(Len(url) - 2) : SubSeq(url, k, k + 2) = <<":", "/", "/">>

\* C4: a subscription spec with a "+" is split at its first "+" only: the
\* name is the text before it and the push endpoint is "http://" followed by
\* all the text after it with the first "|" replaced by ":"; a spec without
\* "+" creates a pull subscription named by the whole spec.
C4_SplitAtFirstPlus ==
    \A k \in CreateSubscriptionCalls :
        LET spec == calls[k].spec
        IN  IF IndexOf(spec, "+") = 0
            THEN /\ ~calls[k].push
                 /\ calls[k].name = spec
            ELSE /\ calls[k].push
                 /\ calls[k].name = BeforeFirstPlus(spec)
                 /\ calls[k].endpoint =
                       HttpPrefix \o Replace1(AfterFirstPlus(spec), "|", ":")

\* C5: the push endpoint passed to the service has every "|" of the encoded
\* endpoint replaced by ":" and gets the "http://" prefix only when the
\* encoded endpoint names no protocol (stated for the specs with a single
\* "+", whose encoded endpoint is all the text after it).
C5_EndpointDecoded ==
    \A k \in CreateSubscriptionCalls :
        LET spec == calls[k].spec
            decoded == ReplaceAll(AfterFirstPlus(spec), "|", ":")
        IN  CountChar(spec, "+") = 1 =>
                calls[k].endpoint =
                    IF HasProtocol(decoded) THEN decoded
                    ELSE HttpPrefix \o decoded

\* C6: when the connection for a configuration cannot be established the
\* process is terminated with status 1, no connection is held, no remote
\* call was issued for that configuration, and it is the last configuration
\* handed to processConfigString: later variables and the labels are not read.
C6_ConnectionFailureFatal ==
    fatal =>
        /\ pc = "done"
        /\ exitCode = 1
        /\ calls = <<>>
        /\ conn = "none"
        /\ Last(processed) = cur.hint
        /\ configCount = Len(processed)
        /\ CountWarn(cur.hint) = 0
        /\ cur.hint.kind = "env" =>
              /\ ~listed
              /\ \A k \in 1..Len(processed) :
                    processed[k].kind = "env" /\ processed[k].n <= cur.hint.n

\* C6 witness: the connection for variable 1 failed while variable 2 and a
\* label hold configurations
C6_Witness ==
    /\ fatal
    /\ cur.hint = EnvHint(1)
    /\ environ[2].set
    /\ environ[2].cfg # EmptyCfg
    /\ ToolLabels # {}

\* C7: after a failed existence check, topic creation or subscription
\* creation no further remote call is issued for the configuration, its
\* connection is closed, exactly one warning carries its source hint, and
\* control is back in the discovery loop.
C7_CreateFailureWarns ==
    /\ \A k \in 1..(Len(calls) - 1) : calls[k].ok
    /\ (calls # <<>> /\ ~Last(calls).ok) =>
          /\ conn = "closed"
          /\ CountWarn(cur.hint) = 1
          /\ \A k \in 1..Len(warnings) :
                warnings[k].hint = cur.hint => warnings[k].kind = "create"
          /\ Discovering
          /\ ~fatal
          /\ cur.hint \notin okNow

\* C7 witness: a call failed with a subscription of the configuration not
\* yet created, and the next variable is about to be read
C7_Witness ==
    /\ calls # <<>>
    /\ ~Last(calls).ok
    /\ subs # <<>>
    /\ pc = "env"
    /\ Getenv(i) # <<>>

HasSubscriptions == \E t \in DOMAIN topics : topics[t] # <<>>

\* C8: CreateTopic is called only right after an existence check of the same
\* topic that answered false.  When a configuration whose provisioning fully
\* succeeded in an earlier run is provisioned again, no CreateTopic is
\* called, the first CreateSubscription call fails (and is the only one),
\* one warning carries the source hint once create has returned, and a run
\* that ends with such a warning exits with status 0.
C8_TopicIdempotentSubscriptionNot ==
    /\ \A k \in 1..Len(calls) :
          calls[k].op = "CreateTopic" =>
              /\ k > 1
              /\ calls[k - 1].op = "Exists"
              /\ calls[k - 1].topic = calls[k].topic
              /\ calls[k - 1].ok
              /\ ~calls[k - 1].exists
    /\ cur.hint \in prevOk =>
          /\ \A k \in 1..Len(calls) : calls[k].op # "CreateTopic"
          /\ \A k \in CreateSubscriptionCalls :
                ~calls[k].ok /\ calls[k].exists
          /\ Cardinality(CreateSubscriptionCalls) <= 1
          /\ (HasSubscriptions /\ conn = "closed") =>
                /\ CountWarn(cur.hint) = 1
                /\ ~fatal
                /\ Discovering
          /\ (HasSubscriptions /\ NormalEnd) => exitCode = 0

\* C8 witness: the second run ends with status 0 after the subscription of a
\* configuration that succeeded in the first run was refused
C8_Witness ==
    /\ run = 2
    /\ cur.hint \in prevOk
    /\ NormalEnd
    /\ exitCode = 0
    /\ calls # <<>>
    /\ Last(calls).op = "CreateSubscription"
    /\ ~Last(calls).ok
    /\ CountWarn(cur.hint) = 1

\* the environment pass is over and the run was not cut short
EnvPassOver ==
    /\ flagsPassed
    /\ ~fatal
    /\ \/ pc \in {"docker", "labels", "exitcheck", "done"}
       \/ pc \in {"connect", "range", "mktopic", "subs"} /\ ret = "labels"

EnvProcessed == {k \in 1..MaxEnv : \E j \in 1..Len(processed) : processed[j] = EnvHint(k)}

Attempted ==
    {k \in 1..Len(processed) : Len(SrcOf(processed[k]).topics) >= 1}

\* C10 as stated: at the end of a run configCount is the number of
\* configuration strings for which provisioning was attempted; a malformed
\* string is not counted.
C10_CountsAttempted ==
    NormalEnd => configCount = Cardinality(Attempted)

\* C10 amended: configCount is the number of configuration strings handed to
\* processConfigString, the malformed ones included; at the end of a run it
\* is the number of discovered configuration strings.
C10_CountsDiscovered ==
    /\ configCount = Len(processed)
    /\ NormalEnd => configCount = EnvDiscovered + LabelsDiscovered

\* C10 witness: a run that counted a malformed string and a failed one
C10_Witness ==
    /\ NormalEnd
    /\ configCount >= 2
    /\ \E k \in 1..Len(warnings) : warnings[k].kind = "malformed"
    /\ \E k \in 1..Len(warnings) : warnings[k].kind = "create"

====
